---- MODULE Spec2Model ----
(***************************************************************************)
(* Model of scripts/preprocessing.py (class ReviewPreprocessor) with the   *)
(* configuration of scripts/config.py.  The working table self.df is a     *)
(* record [cols, rows]: cols is the column sequence of the data frame and  *)
(* rows is the sequence of its rows, each row a function from the column   *)
(* names to cells.  A cell is a tagged record:                             *)
(*   [t |-> "null"]                      NaN / None / NaT / empty field    *)
(*   [t |-> "str", s |-> "..."]          a string                          *)
(*   [t |-> "txt", s |-> <<...>>]        a string kept as the sequence of  *)
(*                                       its characters (review_text)      *)
(*   [t |-> "num", n |-> i, f |-> d]     the number i + d/10               *)
(*   [t |-> "dstr", y, m, d, h]          the text "y-m-d h:00:00"          *)
(*   [t |-> "date", y, m, d]             a datetime.date                   *)
(***************************************************************************)
EXTENDS Integers, Sequences, FiniteSets, TLC

VARIABLES pc, df, stats, file, out, ret, reported, run, prev

vars == <<pc, df, stats, file, out, ret, reported, run, prev>>

\* Largest number of rows of an input file.
MaxRows == 2

-----------------------------------------------------------------------------
\* Cells

Null == [t |-> "null"]

Str(s) == [t |-> "str", s |-> s]

Txt(s) == [t |-> "txt", s |-> s]

Num(n, f) == [t |-> "num", n |-> n, f |-> f]

DStr(y, m, d, h) == [t |-> "dstr", y |-> y, m |-> m, d |-> d, h |-> h]

Date(y, m, d) == [t |-> "date", y |-> y, m |-> m, d |-> d]

\* pd.isna / Series.isnull
IsNull(c) == c.t = "null"

\* self.df is None
NoDf == [cols |-> <<>>, rows |-> <<>>, none |-> TRUE]

Frame(cols, rows) == [cols |-> cols, rows |-> rows, none |-> FALSE]

\* c in self.df.columns
HasCol(d, c) == \E i \in 1..Len(d.cols) : d.cols[i] = c

ColSet(d) == {d.cols[i] : i \in 1..Len(d.cols)}

\* self.df[c] = ... : an existing column keeps its place, a new one is appended
WithCol(d, c) == IF HasCol(d, c) THEN d.cols ELSE Append(d.cols, c)

\* the value of column c of a row after self.df[c] = f(row)
SetCell(r, c, v) == [k \in DOMAIN r \cup {c} |-> IF k = c THEN v ELSE r[k]]

\* self.stats[k] = v
Put(st, k, v) == [x \in DOMAIN st \cup {k} |-> IF x = k THEN v ELSE st[x]]

\* self.stats.get(k, 0)
StatsGet(st, k) == IF k \in DOMAIN st THEN st[k] ELSE 0

EmptyStats == [x \in {} |-> 0]

-----------------------------------------------------------------------------
\* Configuration (scripts/config.py)

APP_IDS ==
    [CBE |-> "com.combanketh.mobilebanking",
     BOA |-> "com.boa.boaMobileBanking",
     Dashen |-> "com.dashen.dashensuperapp"]

BANK_NAMES ==
    [CBE |-> "Commercial Bank of Ethiopia",
     BOA |-> "Bank of Abyssinia",
     Dashen |-> "Dashen Bank"]

\* set(APP_IDS.keys()) if APP_IDS else set(BANK_NAMES.keys())
allowed_bank_codes ==
    IF DOMAIN APP_IDS # {} THEN DOMAIN APP_IDS ELSE DOMAIN BANK_NAMES

-----------------------------------------------------------------------------
\* Input files

\* The columns the scraper writes, in its order.
ScraperColumns ==
    <<"review_id", "review_text", "rating", "review_date", "bank_code",
      "bank_name", "source">>

\* Sets of columns an input file lacks.
AbsentColumns ==
    {{}} \cup {{ScraperColumns[i]} : i \in 1..Len(ScraperColumns)}
         \cup {{"bank_code", "bank_name"}, {"review_id", "source"},
               {"review_date", "bank_name"},
               {"review_text", "rating", "bank_code"},
               {"review_text", "rating", "bank_code", "bank_name"}}

\* " a<tab> a": leading whitespace and an inner run of whitespace
MessyText == Txt(<<" ", "a", "\t", " ", "a">>)

GoodRow1 ==
    [review_id |-> Str("r1"), review_text |-> MessyText, rating |-> Num(4, 0),
     review_date |-> DStr(2024, 1, 5, 10), bank_code |-> Str("CBE"),
     bank_name |-> Str("Commercial Bank of Ethiopia"),
     source |-> Str("Google Play")]

GoodRow2 ==
    [review_id |-> Str("r2"), review_text |-> Txt(<<"a">>), rating |-> Num(5, 0),
     review_date |-> DStr(2024, 3, 2, 0), bank_code |-> Str("BOA"),
     bank_name |-> Str("Bank of Abyssinia"), source |-> Str("Google Play")]

\* The values that replace one field of GoodRow1.
FieldDefects ==
    [review_id |-> {Null},
     review_text |-> {Null, Txt(<<" ">>)},
     rating |-> {Null, Str("abc"), Num(5, 9), Num(0, 5), Num(7, 0)},
     review_date |-> {Null, Str("yesterday"), DStr(2024, 13, 5, 0)},
     bank_code |-> {Null, Str("XYZ")},
     bank_name |-> {Str("NA"), Str("Dashen Bank"), Str("Other Bank")},
     source |-> {Null}]

\* The rows of the input files: the two good rows, GoodRow1 with one field
\* replaced, and a row with empty text and an out-of-range rating.
SampleRows ==
    {GoodRow1, GoodRow2}
    \cup UNION {{[GoodRow1 EXCEPT ![c] = v] : v \in FieldDefects[c]} :
                c \in DOMAIN FieldDefects}
    \cup {[GoodRow1 EXCEPT !.review_text = Txt(<<" ">>), !.rating = Num(7, 0)]}

RestrictRow(r, cs) == [c \in cs |-> r[c]]

RECURSIVE SeqsUpTo(_, _)
SeqsUpTo(S, n) ==
    IF n = 0 THEN {<<>>}
    ELSE LET shorter == SeqsUpTo(S, n - 1)
         IN  shorter \cup {Append(s, x) : s \in {q \in shorter : Len(q) = n - 1}, x \in S}

\* The files at input_path: a header and at most MaxRows rows.
InputFiles ==
    {Frame(SelectSeq(ScraperColumns, LAMBDA c : c \notin absent),
           [i \in 1..Len(rs) |->
               RestrictRow(rs[i], {ScraperColumns[j] : j \in 1..Len(ScraperColumns)} \ absent)])
       : absent \in AbsentColumns, rs \in SeqsUpTo(SampleRows, MaxRows)}

-----------------------------------------------------------------------------
\* CSV

\* The tokens pd.read_csv reads as NaN.
NaTokens == {"", "NA", "N/A", "NaN", "nan", "null", "NULL", "None", "n/a", "#N/A"}

\* pd.read_csv on one field
ReadCsvCell(c) ==
    IF c.t = "str" /\ c.s \in NaTokens THEN Null
    ELSE IF c.t = "txt" /\ c.s = <<>> THEN Null
    ELSE c

\* pd.read_csv(self.input_path)
ReadCsv(f) ==
    Frame(f.cols, [i \in 1..Len(f.rows) |->
                      [c \in DOMAIN f.rows[i] |-> ReadCsvCell(f.rows[i][c])]])

-----------------------------------------------------------------------------
\* ReviewPreprocessor.__init__
Init ==
    /\ pc = "start"
    /\ df = NoDf
    /\ stats = EmptyStats
    /\ file \in InputFiles
    /\ out = NoDf
    /\ ret = "none"
    /\ reported = FALSE
    /\ run = 1
    /\ prev = NoDf

\* load_data: the file is read
LoadOk ==
    /\ pc = "start"
    /\ df' = ReadCsv(file)
    /\ stats' = Put(stats, "original_count", Len(df'.rows))
    /\ pc' = "check_missing"
    /\ UNCHANGED <<file, out, ret, reported, run, prev>>

\* load_data: the file is absent or unreadable; process returns False
LoadFail ==
    /\ pc = "start"
    /\ pc' = "done"
    /\ ret' = "False"
    /\ UNCHANGED <<df, stats, file, out, reported, run, prev>>

\* check_missing_data: the null count of every column
check_missing_data ==
    /\ pc = "check_missing"
    /\ stats' = Put(stats, "missing_before",
                    [c \in ColSet(df) |->
                        Cardinality({i \in 1..Len(df.rows) : IsNull(df.rows[i][c])})])
    /\ pc' = "handle_missing"
    /\ UNCHANGED <<df, file, out, ret, reported, run, prev>>

\* the lookup in BANK_NAMES itself, not in its inverse
InverseLookup_NotInverted(c) ==
    IF c.t = "str" /\ c.s \in DOMAIN BANK_NAMES THEN Str(BANK_NAMES[c.s]) ELSE Null

\* self.df['bank_name'].map(inverse), inverse = {v: k for k, v in BANK_NAMES.items()}
InverseLookup(c) ==
    IF c.t = "str" /\ \E k \in DOMAIN BANK_NAMES : BANK_NAMES[k] = c.s
    THEN Str(CHOOSE k \in DOMAIN BANK_NAMES : BANK_NAMES[k] = c.s)
    ELSE Null

\* bank_code derived from bank_name when only bank_name is present
DeriveBankCode(d) ==
    IF ~HasCol(d, "bank_code") /\ HasCol(d, "bank_name")
    THEN Frame(WithCol(d, "bank_code"),
               [i \in 1..Len(d.rows) |->
                   SetCell(d.rows[i], "bank_code", InverseLookup(d.rows[i]["bank_name"]))])
    ELSE d

\* [c for c in ['review_text', 'rating', 'bank_code'] if c in self.df.columns]
CriticalCols(d) == {"review_text", "rating", "bank_code"} \cap ColSet(d)

\* self.df.dropna(subset=cs)
DropNa(d, cs) ==
    Frame(d.cols, SelectSeq(d.rows, LAMBDA r : \A c \in cs : ~IsNull(r[c])))

\* self.df[c] = self.df[c].fillna(v) if c is a column, else self.df[c] = v
FillOptional(d, c, v) ==
    Frame(WithCol(d, c),
          [i \in 1..Len(d.rows) |->
              SetCell(d.rows[i], c,
                      IF HasCol(d, c) /\ ~IsNull(d.rows[i][c]) THEN d.rows[i][c] ELSE v)])

handle_missing_values ==
    /\ pc = "handle_missing"
    /\ LET derived == DeriveBankCode(df)
           kept == DropNa(derived, CriticalCols(derived))
           removed == Len(derived.rows) - Len(kept.rows)
       IN  /\ df' = FillOptional(
                      FillOptional(
                        FillOptional(kept, "user_name", Str("Anonymous")),
                        "thumbs_up", Num(0, 0)),
                      "reply_content", Str(""))
           /\ stats' = Put(Put(stats, "rows_removed_missing", removed),
                           "count_after_missing", Len(kept.rows))
    /\ pc' = "dates"
    /\ UNCHANGED <<file, out, ret, reported, run, prev>>

IsLeap(y) == (y % 4 = 0 /\ y % 100 # 0) \/ y % 400 = 0

DaysInMonth(y, m) ==
    IF m = 2 THEN (IF IsLeap(y) THEN 29 ELSE 28)
    ELSE IF m \in {4, 6, 9, 11} THEN 30 ELSE 31

\* pd.to_datetime(value, errors='coerce'): a Timestamp, or NaT
ToDatetime(c) ==
    IF c.t = "dstr" /\ c.m \in 1..12 /\ c.d \in 1..DaysInMonth(c.y, c.m) /\ c.h \in 0..23
    THEN [t |-> "ts", y |-> c.y, m |-> c.m, d |-> c.d, h |-> c.h]
    ELSE IF c.t = "date" THEN [t |-> "ts", y |-> c.y, m |-> c.m, d |-> c.d, h |-> 0]
    ELSE Null

\* Series.dt.date
DtDate(c) == Date(c.y, c.m, c.d)

normalize_dates ==
    /\ pc = "dates"
    /\ IF ~HasCol(df, "review_date")
       THEN df' = df
       ELSE LET parsed == Frame(df.cols,
                                [i \in 1..Len(df.rows) |->
                                    SetCell(df.rows[i], "review_date",
                                            ToDatetime(df.rows[i]["review_date"]))])
                kept == DropNa(parsed, {"review_date"})
                dated == Frame(kept.cols,
                               [i \in 1..Len(kept.rows) |->
                                   SetCell(kept.rows[i], "review_date",
                                           DtDate(kept.rows[i]["review_date"]))])
                cols1 == WithCol(dated, "review_year")
                cols2 == IF \E i \in 1..Len(cols1) : cols1[i] = "review_month"
                         THEN cols1 ELSE Append(cols1, "review_month")
            IN  df' = Frame(cols2,
                            [i \in 1..Len(dated.rows) |->
                                SetCell(SetCell(dated.rows[i], "review_year",
                                                Num(dated.rows[i]["review_date"].y, 0)),
                                        "review_month",
                                        Num(dated.rows[i]["review_date"].m, 0))])
    /\ pc' = "text"
    /\ UNCHANGED <<stats, file, out, ret, reported, run, prev>>

\* the characters \s matches
Whitespace == {" ", "\t", "\n"}

RECURSIVE LStrip(_)
LStrip(s) ==
    IF s # <<>> /\ Head(s) \in Whitespace THEN LStrip(Tail(s)) ELSE s

RECURSIVE RStrip(_)
RStrip(s) ==
    IF s # <<>> /\ s[Len(s)] \in Whitespace THEN RStrip(SubSeq(s, 1, Len(s) - 1)) ELSE s

\* re.sub(r'\s+', ' ', s)
RECURSIVE CollapseWhitespace(_)
CollapseWhitespace(s) ==
    IF s = <<>> THEN <<>>
    ELSE IF Head(s) \in Whitespace THEN <<" ">> \o CollapseWhitespace(LStrip(Tail(s)))
    ELSE <<Head(s)>> \o CollapseWhitespace(Tail(s))

\* clean_review_text without the strip()
clean_review_text_NoStrip(c) ==
    IF IsNull(c) \/ c = Txt(<<>>) THEN Txt(<<>>)
    ELSE Txt(CollapseWhitespace(c.s))

clean_review_text(c) ==
    IF IsNull(c) \/ c = Txt(<<>>) THEN Txt(<<>>)
    ELSE Txt(RStrip(LStrip(CollapseWhitespace(c.s))))

\* no filter on the length of the text
NonEmptyText_KeepAll(d) == d

\* self.df[self.df['review_text'].str.len() > 0]
NonEmptyText(d) ==
    Frame(d.cols, SelectSeq(d.rows, LAMBDA r : Len(r["review_text"].s) > 0))

clean_text ==
    /\ pc = "text"
    /\ IF ~HasCol(df, "review_text")
       THEN \* self.df['review_text'] raises KeyError, which process does not catch
            /\ pc' = "done"
            /\ ret' = "raised"
            /\ UNCHANGED <<df, stats>>
       ELSE LET cleaned == Frame(df.cols,
                                 [i \in 1..Len(df.rows) |->
                                     SetCell(df.rows[i], "review_text",
                                             clean_review_text(df.rows[i]["review_text"]))])
                kept == NonEmptyText(cleaned)
                removed == Len(cleaned.rows) - Len(kept.rows)
            IN  /\ df' = Frame(WithCol(kept, "text_length"),
                               [i \in 1..Len(kept.rows) |->
                                   SetCell(kept.rows[i], "text_length",
                                           Num(Len(kept.rows[i]["review_text"].s), 0))])
                /\ stats' = Put(Put(stats, "empty_reviews_removed", removed),
                                "count_after_cleaning", Len(kept.rows))
                /\ pc' = "ratings"
                /\ ret' = ret
    /\ UNCHANGED <<file, out, reported, run, prev>>

\* pd.to_numeric(value, errors='coerce'): the number, or NaN
ToNumeric(c) == IF c.t = "num" THEN c ELSE Null

\* fillna(0).astype(int): NaN becomes 0, a fraction is cut off toward zero
AsInt(c) ==
    IF IsNull(c) THEN Num(0, 0)
    ELSE IF c.n >= 0 \/ c.f = 0 THEN Num(c.n, 0)
    ELSE Num(c.n + 1, 0)

\* (rating >= 1) & (rating <= 5)
ValidRating(c) == c.n >= 1 /\ c.n <= 5

validate_ratings ==
    /\ pc = "ratings"
    /\ IF ~HasCol(df, "rating")
       THEN UNCHANGED <<df, stats>>
       ELSE LET coerced == Frame(df.cols,
                                 [i \in 1..Len(df.rows) |->
                                     SetCell(df.rows[i], "rating",
                                             AsInt(ToNumeric(df.rows[i]["rating"])))])
                invalid == SelectSeq(coerced.rows, LAMBDA r : ~ValidRating(r["rating"]))
            IN  /\ df' = IF Len(invalid) > 0
                         THEN Frame(coerced.cols,
                                    SelectSeq(coerced.rows, LAMBDA r : ValidRating(r["rating"])))
                         ELSE coerced
                /\ stats' = Put(stats, "invalid_ratings_removed", Len(invalid))
    /\ pc' = "final"
    /\ UNCHANGED <<file, out, ret, reported, run, prev>>

\* desired = ['review_id', ..., 'source']
desired ==
    <<"review_id", "review_text", "rating", "review_date", "bank_code",
      "bank_name", "source">>

\* [c for c in ['user_name', ...] if c in self.df.columns]
extras(d) ==
    SelectSeq(<<"user_name", "thumbs_up", "text_length", "review_year", "review_month">>,
              LAMBDA c : HasCol(d, c))

\* list.insert(i, x) with a 0-based index: past the end it appends
ListInsert(l, i, x) ==
    IF i >= Len(l) THEN Append(l, x)
    ELSE SubSeq(l, 1, i) \o <<x>> \o SubSeq(l, i + 1, Len(l))

\* the position output_columns.insert gives the derived bank_name
BankNameInsertIndex == 6

\* output_columns, after the derived bank_name is inserted
output_columns(d) ==
    LET present == SelectSeq(desired \o extras(d), LAMBDA c : HasCol(d, c))
    IN  IF ~HasCol(d, "bank_name") /\ HasCol(d, "bank_code")
           /\ ~\E i \in 1..Len(present) : present[i] = "bank_name"
        THEN ListInsert(present, BankNameInsertIndex, "bank_name")
        ELSE present

\* the bank_code copied as the bank_name, without the lookup
MapBankName_NoLookup(c) == c

\* self.df['bank_code'].map(BANK_NAMES).fillna(self.df['bank_code'])
MapBankName(c) ==
    IF c.t = "str" /\ c.s \in DOMAIN BANK_NAMES THEN Str(BANK_NAMES[c.s]) ELSE c

\* If bank_name missing, derive from bank_code
DeriveBankName(d) ==
    IF ~HasCol(d, "bank_name") /\ HasCol(d, "bank_code")
    THEN Frame(WithCol(d, "bank_name"),
               [i \in 1..Len(d.rows) |->
                   SetCell(d.rows[i], "bank_name", MapBankName(d.rows[i]["bank_code"]))])
    ELSE d

\* self.df['bank_code'].isin(self.allowed_bank_codes), row by row
IsAllowedBank(c) == c.t = "str" /\ c.s \in allowed_bank_codes

\* no filter on the bank_code
KeepAllowedBanks_NoFilter(d) == d

\* Keep only allowed banks
KeepAllowedBanks(d) ==
    IF HasCol(d, "bank_code")
    THEN Frame(d.cols, SelectSeq(d.rows, LAMBDA r : IsAllowedBank(r["bank_code"])))
    ELSE d

\* self.df.loc[:, cols], after every column of cols the table lacks is added as None
Project(d, cols) ==
    Frame(cols,
          [i \in 1..Len(d.rows) |->
              [c \in {cols[j] : j \in 1..Len(cols)} |->
                  IF HasCol(d, c) THEN d.rows[i][c] ELSE Null]])

\* The bank codes of the input files in the order of Python's string comparison.
StringOrder == <<"BOA", "CBE", "Dashen", "XYZ">>

\* the place of a string in that order
StrRank(x) == CHOOSE i \in 1..Len(StringOrder) : StringOrder[i] = x

DateKey(c) == c.y * 10000 + c.m * 100 + c.d

\* [c for c in ['bank_code', 'review_date'] if c in self.df.columns]
sort_cols(d) == SelectSeq(<<"bank_code", "review_date">>, LAMBDA c : HasCol(d, c))

\* row a must come before row b under sort_values(sort_cols, ascending=...)
Before(d, a, b) ==
    IF sort_cols(d) = <<"bank_code", "review_date">>
    THEN \/ StrRank(a["bank_code"].s) < StrRank(b["bank_code"].s)
         \/ /\ a["bank_code"].s = b["bank_code"].s
            /\ DateKey(a["review_date"]) > DateKey(b["review_date"])
    ELSE IF sort_cols(d) = <<"bank_code">>
    THEN StrRank(a["bank_code"].s) < StrRank(b["bank_code"].s)
    ELSE IF sort_cols(d) = <<"review_date">>
    THEN DateKey(a["review_date"]) < DateKey(b["review_date"])
    ELSE FALSE

\* The row order sort_values produces: p[i] is the old place of the row at
\* place i.  Rows with equal keys keep their order: the sort on two keys is
\* stable, and the default quicksort on a single key is an insertion sort on
\* tables this small.
SortOrders(d) ==
    LET n == Len(d.rows)
    IN  {p \in [1..n -> 1..n] :
           /\ \A i, j \in 1..n : i # j => p[i] # p[j]
           /\ \A i, j \in 1..n : i < j => ~Before(d, d.rows[p[j]], d.rows[p[i]])
           /\ \A i, j \in 1..n :
                 (i < j /\ ~Before(d, d.rows[p[i]], d.rows[p[j]])) => p[i] < p[j]}

prepare_final_output ==
    /\ pc = "final"
    /\ LET cols == output_columns(df)
           kept == KeepAllowedBanks(DeriveBankName(df))
           final == Project(kept, cols)
       IN  \E p \in SortOrders(final) :
               df' = Frame(final.cols, [i \in 1..Len(final.rows) |-> final.rows[p[i]]])
    /\ pc' = "save"
    /\ UNCHANGED <<stats, file, out, ret, reported, run, prev>>

\* DataFrame.to_csv on one cell: a date is written as the text y-m-d
ToCsvCell(c) == IF c.t = "date" THEN DStr(c.y, c.m, c.d, 0) ELSE c

\* self.df.to_csv(self.output_path, index=False)
ToCsv(d) ==
    Frame(d.cols, [i \in 1..Len(d.rows) |->
                      [c \in DOMAIN d.rows[i] |-> ToCsvCell(d.rows[i][c])]])

\* save_data: the file is written
SaveOk ==
    /\ pc = "save"
    /\ out' = ToCsv(df)
    /\ stats' = Put(stats, "final_count", Len(df.rows))
    /\ pc' = "report"
    /\ UNCHANGED <<df, file, ret, reported, run, prev>>

\* process ignoring the result of save_data
SaveFail_ReturnsTrue ==
    /\ pc = "save"
    /\ pc' = "done"
    /\ ret' = "True"
    /\ UNCHANGED <<df, stats, file, out, reported, run, prev>>

\* save_data: the write fails; process returns False
SaveFail ==
    /\ pc = "save"
    /\ pc' = "done"
    /\ ret' = "False"
    /\ UNCHANGED <<df, stats, file, out, reported, run, prev>>

\* generate_report, after which process returns True
generate_report ==
    /\ pc = "report"
    /\ reported' = TRUE
    /\ pc' = "done"
    /\ ret' = "True"
    /\ UNCHANGED <<df, stats, file, out, run, prev>>

\* A second ReviewPreprocessor whose input_path is the first one's output_path.
Rerun ==
    /\ pc = "done"
    /\ ret = "True"
    /\ run = 1
    /\ file' = out
    /\ prev' = df
    /\ df' = NoDf
    /\ stats' = EmptyStats
    /\ out' = NoDf
    /\ ret' = "none"
    /\ reported' = FALSE
    /\ run' = 2
    /\ pc' = "start"

Next ==
    \/ LoadOk
    \/ LoadFail
    \/ check_missing_data
    \/ handle_missing_values
    \/ normalize_dates
    \/ clean_text
    \/ validate_ratings
    \/ prepare_final_output
    \/ SaveOk
    \/ SaveFail
    \/ generate_report
    \/ Rerun

Spec == Init /\ [][Next]_vars
-----------------------------------------------------------------------------
\* Properties

\* process() has returned True
Succeeded == pc = "done" /\ ret = "True"

\* self.df is the table prepare_final_output assembled
Assembled ==
    \/ pc \in {"save", "report"}
    \/ pc = "done" /\ ret \in {"True", "False"} /\ ~df.none

Rows(d) == {d.rows[i] : i \in 1..Len(d.rows)}

\* C1: after a successful run final_count <= original_count, and
\* original_count = final_count + rows_removed_missing + empty_reviews_removed
\* + invalid_ratings_removed.
C1_Conservation ==
    Succeeded =>
        /\ StatsGet(stats, "final_count") <= StatsGet(stats, "original_count")
        /\ StatsGet(stats, "original_count") =
              StatsGet(stats, "final_count") + StatsGet(stats, "rows_removed_missing")
              + StatsGet(stats, "empty_reviews_removed")
              + StatsGet(stats, "invalid_ratings_removed")

\* C2: after a successful run the final table has all seven required columns
\* and no row has a null in any of them.
C2_SchemaClosure ==
    Succeeded =>
        /\ {"review_id", "review_text", "rating", "review_date", "bank_code",
            "bank_name", "source"} \subseteq ColSet(df)
        /\ \A r \in Rows(df) :
              \A c \in {"review_id", "review_text", "rating", "review_date",
                        "bank_code", "bank_name", "source"} \cap DOMAIN r :
                  ~IsNull(r[c])

\* C3: a second run on the output of a first successful run removes no row
\* and yields the same table: same columns in the same order, same rows in
\* the same order.
C3_Idempotent ==
    (Succeeded /\ run = 2) =>
        /\ StatsGet(stats, "final_count") = StatsGet(stats, "original_count")
        /\ df.cols = prev.cols
        /\ df.rows = prev.rows

\* C4: the columns of the final table are the preferred ordering restricted
\* to the columns that exist, in that order.
C4_ColumnOrder ==
    Assembled =>
        df.cols = SelectSeq(<<"review_id", "review_text", "rating", "review_date",
                              "bank_code", "bank_name", "source", "user_name",
                              "thumbs_up", "text_length", "review_year",
                              "review_month">>,
                            LAMBDA c : c \in ColSet(df))

\* the value of a rating cell lies in the closed range [1, 5]
RawInRange(c) == c.t = "num" /\ 10 * c.n + c.f >= 10 /\ 10 * c.n + c.f <= 50

\* C5: validate_ratings leaves only integral ratings from 1 to 5, removes
\* every row whose rating is not a number within [1, 5] and counts the
\* removed rows in invalid_ratings_removed.
C5_RatingRange ==
    [][(pc = "ratings" /\ HasCol(df, "rating")) =>
          /\ \A r \in Rows(df') :
                r["rating"].t = "num" /\ r["rating"].f = 0 /\ r["rating"].n \in 1..5
          /\ Len(df'.rows) =
                Cardinality({i \in 1..Len(df.rows) : RawInRange(df.rows[i]["rating"])})
          /\ stats'["invalid_ratings_removed"] = Len(df.rows) - Len(df'.rows)]_vars

\* C6: every row of the final table has a bank_code of the configured
\* allow-list; a table that came with a bank column has the bank_code column.
C6_AllowList ==
    Assembled =>
        /\ (HasCol(file, "bank_code") \/ HasCol(file, "bank_name")) => HasCol(df, "bank_code")
        /\ HasCol(df, "bank_code") =>
              \A r \in Rows(df) :
                  r["bank_code"].t = "str" /\ r["bank_code"].s \in allowed_bank_codes

\* a row with another bank_code came in and a row is left
C6_Witness ==
    /\ Succeeded
    /\ run = 1
    /\ Len(df.rows) >= 1
    /\ \E r \in Rows(file) : "bank_code" \in DOMAIN r /\ r["bank_code"] = Str("XYZ")

\* a text with a character that is not whitespace
HasContent(c) == c.t = "txt" /\ \E i \in 1..Len(c.s) : c.s[i] \notin {" ", "\t", "\n"}

\* a text that is non-empty, trimmed and free of whitespace runs
Sanitized(c) ==
    /\ c.t = "txt"
    /\ Len(c.s) > 0
    /\ c.s[1] \notin {" ", "\t", "\n"}
    /\ c.s[Len(c.s)] \notin {" ", "\t", "\n"}
    /\ \A i \in 1..(Len(c.s) - 1) :
          ~(c.s[i] \in {" ", "\t", "\n"} /\ c.s[i + 1] \in {" ", "\t", "\n"})

\* C7: every review_text of the final table is non-empty, trimmed and free
\* of whitespace runs, and clean_text removes exactly the rows whose text is
\* null, empty or whitespace only.
C7_TextSanitized ==
    /\ [](Assembled => \A r \in Rows(df) : Sanitized(r["review_text"]))
    /\ [][(pc = "text" /\ pc' = "ratings") =>
             /\ \A r \in Rows(df') : Sanitized(r["review_text"])
             /\ Len(df'.rows) =
                   Cardinality({i \in 1..Len(df.rows) :
                                   HasContent(df.rows[i]["review_text"])})]_vars

\* a whitespace-only text was removed and a messy text was sanitized
C7_Witness ==
    /\ Succeeded
    /\ run = 1
    /\ Len(file.rows) = 2
    /\ \E r \in Rows(file) : r["review_text"] = Txt(<<" ">>)
    /\ \E r \in Rows(file) : r["review_text"] = MessyText
    /\ Len(df.rows) = 1
    /\ df.rows[1]["review_text"] = Txt(<<"a", " ", "a">>)

\* the bank_name of the row is the display name of its bank_code
Canonical(r) ==
    /\ r["bank_code"].t = "str"
    /\ r["bank_code"].s \in DOMAIN BANK_NAMES
    /\ r["bank_name"] = Str(BANK_NAMES[r["bank_code"].s])

C9_NeverRaises == ret # "raised"

\* C10: process() returns True exactly when the load and the save succeeded;
\* after a failed load nothing ran and nothing is recorded; after a failed
\* save final_count is not recorded and the report is not generated.
C10_Outcome ==
    pc = "done" =>
        /\ ret = "True" <=>
              ("original_count" \in DOMAIN stats /\ "final_count" \in DOMAIN stats)
        /\ ret = "True" => reported /\ out = ToCsv(df)
        /\ "original_count" \notin DOMAIN stats =>
              /\ ret = "False"
              /\ df.none
              /\ stats = EmptyStats
              /\ out.none
              /\ ~reported
        /\ (ret = "False" /\ "original_count" \in DOMAIN stats) =>
              /\ "final_count" \notin DOMAIN stats
              /\ out.none
              /\ ~reported

\* the save failed on a table with rows
C10_Witness ==
    /\ pc = "done"
    /\ ret = "False"
    /\ ~df.none
    /\ Len(df.rows) >= 1
    /\ "count_after_cleaning" \in DOMAIN stats

\* the three removal counters
RemovalCounters ==
    {"rows_removed_missing", "empty_reviews_removed", "invalid_ratings_removed"}

\* the counters a step changes
ChangedCounters == {k \in RemovalCounters : StatsGet(stats', k) # StatsGet(stats, k)}

\* the stages follow each other in the fixed order
StageOrder ==
    [][pc' # pc =>
          <<pc, pc'>> \in
             {<<"start", "check_missing">>, <<"check_missing", "handle_missing">>,
              <<"handle_missing", "dates">>, <<"dates", "text">>,
              <<"text", "ratings">>, <<"ratings", "final">>, <<"final", "save">>,
              <<"save", "report">>, <<"report", "done">>, <<"start", "done">>,
              <<"text", "done">>, <<"save", "done">>, <<"done", "start">>}]_vars

\* no stage adds a row
RowsNeverGrow ==
    [][(~df.none /\ ~df'.none) => Len(df'.rows) <= Len(df.rows)]_vars

\* a stage changes at most its own counter, by the number of rows it removed
OwnCounterOnly ==
    [][(~df.none /\ ~df'.none) =>
          /\ ChangedCounters \subseteq
                (CASE pc = "handle_missing" -> {"rows_removed_missing"}
                   [] pc = "text" -> {"empty_reviews_removed"}
                   [] pc = "ratings" -> {"invalid_ratings_removed"}
                   [] OTHER -> {})
          /\ \A k \in ChangedCounters :
                StatsGet(stats', k) = Len(df.rows) - Len(df'.rows)]_vars

\* the removed rows counted so far are no more than the rows removed so far
CountedAtMostOnce ==
    [](("original_count" \in DOMAIN stats /\ ~df.none) =>
          StatsGet(stats, "rows_removed_missing") + StatsGet(stats, "empty_reviews_removed")
             + StatsGet(stats, "invalid_ratings_removed")
          <= stats["original_count"] - Len(df.rows))

\* the row has a null in rating or bank_code, or a bank_name of no known bank
\* when bank_code is to be derived from it
OtherCriticalMissing(r) ==
    \/ "rating" \in DOMAIN r /\ IsNull(r["rating"])
    \/ "bank_code" \in DOMAIN r /\ IsNull(r["bank_code"])
    \/ /\ "bank_code" \notin DOMAIN r
       /\ "bank_name" \in DOMAIN r
       /\ ~(r["bank_name"].t = "str"
            /\ \E k \in DOMAIN BANK_NAMES : BANK_NAMES[k] = r["bank_name"].s)

\* the review_text is null, empty or whitespace only
EmptyText(c) == IsNull(c) \/ ~HasContent(c)

\* rating validation never sees a row without text, and the rows it removes
\* are the rows with a rating outside 1..5 after coercion
RatingsSeeOnlyText ==
    [][(pc = "ratings" /\ HasCol(df, "rating")) =>
          /\ \A r \in Rows(df) : HasContent(r["review_text"])
          /\ StatsGet(stats', "invalid_ratings_removed") = Len(df.rows) - Len(df'.rows)]_vars

\* C11 as stated: the stages run in the fixed order and never add a row, a
\* removed row is counted at most once and by the stage that removed it, and
\* every row with an empty review_text (null, empty or whitespace only) is
\* removed by clean_text and counted in empty_reviews_removed, not in
\* rows_removed_missing, and never reaches validate_ratings.
C11_StagesAndCounters ==
    /\ StageOrder
    /\ RowsNeverGrow
    /\ OwnCounterOnly
    /\ CountedAtMostOnce
    /\ RatingsSeeOnlyText
    /\ [][(pc = "handle_missing" /\ HasCol(df, "review_text")) =>
             StatsGet(stats', "rows_removed_missing") =
                Cardinality({i \in 1..Len(df.rows) : OtherCriticalMissing(df.rows[i])})]_vars
    /\ [][(pc = "text" /\ pc' = "ratings") =>
             StatsGet(stats', "empty_reviews_removed") =
                Cardinality({i \in 1..Len(df.rows) : EmptyText(df.rows[i]["review_text"])})]_vars

\* C11 amended: as C11, but a row whose review_text is null (an empty field
\* of the file) is removed by handle_missing_values and counted in
\* rows_removed_missing; only a row whose text is whitespace only is removed
\* by clean_text and counted in empty_reviews_removed.
C11_NullTextCountedMissing ==
    /\ StageOrder
    /\ RowsNeverGrow
    /\ OwnCounterOnly
    /\ CountedAtMostOnce
    /\ RatingsSeeOnlyText
    /\ [][(pc = "handle_missing" /\ HasCol(df, "review_text")) =>
             /\ StatsGet(stats', "rows_removed_missing") =
                   Cardinality({i \in 1..Len(df.rows) :
                                   \/ OtherCriticalMissing(df.rows[i])
                                   \/ IsNull(df.rows[i]["review_text"])})
             /\ \A r \in Rows(df') : ~IsNull(r["review_text"])]_vars
    /\ [][(pc = "text" /\ pc' = "ratings") =>
             /\ \A r \in Rows(df) : ~IsNull(r["review_text"])
             /\ StatsGet(stats', "empty_reviews_removed") =
                   Cardinality({i \in 1..Len(df.rows) :
                                   ~HasContent(df.rows[i]["review_text"])})
             /\ StatsGet(stats', "rows_removed_missing") =
                   StatsGet(stats, "rows_removed_missing")]_vars

\* a row with whitespace-only text and rating 7 was removed by clean_text,
\* a row with a null text by handle_missing_values, and validate_ratings ran
\* without counting either
C11_Witness ==
    /\ pc = "final"
    /\ run = 1
    /\ Len(file.rows) = 2
    /\ \E r \in Rows(file) : r["review_text"] = Txt(<<" ">>) /\ r["rating"] = Num(7, 0)
    /\ \E r \in Rows(file) : IsNull(r["review_text"])
    /\ stats["rows_removed_missing"] = 1
    /\ stats["empty_reviews_removed"] = 1
    /\ stats["invalid_ratings_removed"] = 0

\* the cell is the display name of a known bank
KnownBankName(c) ==
    c.t = "str" /\ \E k \in DOMAIN BANK_NAMES : BANK_NAMES[k] = c.s

\* the row has no null in review_text or rating, where the table has them
TextAndRatingPresent(r) ==
    /\ "review_text" \in DOMAIN r => ~IsNull(r["review_text"])
    /\ "rating" \in DOMAIN r => ~IsNull(r["rating"])

\* handle_missing_values on a table with bank_name and without bank_code:
\* bank_code is derived by inverse lookup, the rows kept are those with a
\* known bank_name (and no other critical null), each with the matching
\* code, and the others are counted in rows_removed_missing
InverseLookupBeforeFilter ==
    [][(pc = "handle_missing" /\ ~HasCol(df, "bank_code") /\ HasCol(df, "bank_name")) =>
          /\ HasCol(df', "bank_code")
          /\ \A r \in Rows(df') :
                /\ r["bank_code"].t = "str"
                /\ r["bank_code"].s \in DOMAIN BANK_NAMES
                /\ Str(BANK_NAMES[r["bank_code"].s]) = r["bank_name"]
          /\ Len(df'.rows) =
                Cardinality({i \in 1..Len(df.rows) :
                                /\ KnownBankName(df.rows[i]["bank_name"])
                                /\ TextAndRatingPresent(df.rows[i])})
          /\ stats'["rows_removed_missing"] = Len(df.rows) - Len(df'.rows)]_vars

\* the table has none of review_text, rating and bank_code
NoCriticalColumn(d) ==
    ~HasCol(d, "review_text") /\ ~HasCol(d, "rating") /\ ~HasCol(d, "bank_code")

\* C12 as stated: bank_code is derived by inverse lookup before the critical
\* filter, and when the table has none of review_text, rating and bank_code
\* handle_missing_values removes no row.
C12_DeriveThenFilter ==
    /\ InverseLookupBeforeFilter
    /\ [][(pc = "handle_missing" /\ NoCriticalColumn(df)) =>
             /\ Len(df'.rows) = Len(df.rows)
             /\ stats'["rows_removed_missing"] = 0]_vars

\* C12 amended: bank_code is derived by inverse lookup before the critical
\* filter, and when the table has none of review_text, rating, bank_code and
\* bank_name handle_missing_values removes no row.
C12_NoBankColumnNoRemoval ==
    /\ InverseLookupBeforeFilter
    /\ [][(pc = "handle_missing" /\ NoCriticalColumn(df) /\ ~HasCol(df, "bank_name")) =>
             /\ Len(df'.rows) = Len(df.rows)
             /\ stats'["rows_removed_missing"] = 0]_vars

\* of two rows without bank_code, the one named after a known bank was kept
\* with its code and the one with another bank_name was removed and counted
C12_Witness ==
    /\ pc = "dates"
    /\ run = 1
    /\ ~HasCol(file, "bank_code")
    /\ HasCol(file, "bank_name")
    /\ Len(file.rows) = 2
    /\ \E r \in Rows(file) : r["bank_name"] = Str("Other Bank")
    /\ Len(df.rows) = 1
    /\ df.rows[1]["bank_code"] = Str("BOA")
    /\ df.rows[1]["bank_name"] = Str("Bank of Abyssinia")
    /\ stats["rows_removed_missing"] = 1

====
